---- MODULE Spec2Model ----
(***************************************************************************)
(* Model of the ai-agent-platform runtime path:                            *)
(*   - the orchestrator worker (sqs_handler.py, step_executor.py) over the *)
(*     step queue, the DLQ and the Step / Run rows;                        *)
(*   - the control-plane run endpoints (routers/runs.py);                  *)
(*   - the LLM gateway request pipeline (main.py, utils/budget.py).        *)
(* Each subsystem has its own specification over the shared variables.     *)
(***************************************************************************)
EXTENDS Integers, Sequences, FiniteSets, TLC

VARIABLES
    \* ---- step queue and DLQ (SQS) ----
    body,           \* message id -> message body (never rewritten by the worker);
                    \* form: "complete", or what the body lacks ("no_attempt",
                    \* "missing_key": one of run_id, step_id, step_name, step_type),
                    \* or "not_json"
    queue,          \* message id -> "visible" | "inflight" | "deleted"
                    \* ("pending": not sent yet, "none": the Run has no such step)
    dlq,            \* set of DLQ bodies [original_message_id, dlq_reason]
    dlqConfigured,  \* settings.SQS_DLQ_URL is set
    \* ---- relational store (committed rows) ----
    step,           \* step id -> Step row
    run,            \* the Run row
    \* ---- worker tasks (coroutines of _process_message, any process) ----
    task,           \* task id -> position and locals of _process_message / execute
                    \* (calls: gateway requests LLMClient.completion has sent for the
                    \* execution; seen, runSeen: history, the committed Step and Run
                    \* status when the message was received)
    faults,         \* environment faults so far (crash, failed SQS call, early redelivery)
    \* ---- history of the worker ----
    lastAttempt,    \* step id -> attempt of the latest execution started (0: none yet)
    \* ---- polling loop of one worker process ----
    poll,           \* [backlog: messages visible in the queue,
                    \*  inflight: _process_message coroutines of the current batch]
    \* ---- control plane ----
    now,            \* clock of the control plane
    cancel,         \* the DELETE /runs/{run_id} request in progress: [pc, row: the Run
                    \* its session loaded, http: status of the latest response (0: none)]
    \* ---- LLM gateway ----
    cfgRateLimit,   \* settings.RATE_LIMIT_REQUESTS_PER_MINUTE of the deployment
    tenant,         \* the Tenant row [token_budget_monthly, token_used_current_month]
    rate,           \* fast store ratelimit:{tenant} = [count, ttl]; count 0 = no key
    budgetCache,    \* fast store budget:{tenant} = [present, budget_monthly, used_current_month, ttl]
    usageCounter,   \* fast store budget:{tenant}:counter
    events,         \* committed LLMEvent rows: set of [req, total_tokens]
    req,            \* request id -> position and locals of create_completion
    window,         \* history: number of the rate-limit window (lifetimes of the rate key so far)
    \* ---- provider router of the gateway process ----
    providers,      \* [registered: names in registration order, supported_models: name -> models]
    breaker,        \* provider name -> circuit breaker [state, fail_counter, fail_max, wait]
                    \* (wait: seconds until the open timeout has passed; streak: history,
                    \* calls in a row that ended in ProviderError)
    rt              \* request id -> locals of route() and of the breaker call in progress

routerVars  == <<providers, breaker, rt>>
gatewayVars == <<cfgRateLimit, tenant, rate, budgetCache, usageCounter, events, req, window,
                 routerVars>>
workerVars  == <<body, queue, dlq, dlqConfigured, step, task, faults, lastAttempt, poll, cancel>>
nonWorker   == <<now, gatewayVars, poll, cancel>>
vars == <<body, queue, dlq, dlqConfigured, step, run, task, faults, lastAttempt, poll,
          now, cancel, cfgRateLimit, tenant, rate, budgetCache, usageCounter, events, req, window,
          providers, breaker, rt>>

----------------------------------------------------------------------------
\* Bounds of the model

NumSteps  == 2      \* steps (and step messages) of the Run
NumTasks  == 2      \* concurrent _process_message tasks
MaxTokens == 1      \* largest total_tokens an LLM call reports
MaxFaults == 1      \* environment faults per behaviour

\* Program constants
STEP_MAX_RETRIES == 3

Steps == 1..NumSteps
Msgs  == 1..NumSteps
Tasks == 1..NumTasks

Min(a, b) == IF a < b THEN a ELSE b
Max(a, b) == IF a > b THEN a ELSE b

----------------------------------------------------------------------------
\* Values

StepTypes == {"llm", "tool"}

\* The task_config of the Run: two llm steps, then tool steps.
StepTypeOf(s) == IF s <= 2 THEN "llm" ELSE "tool"

\* Error messages str(e) an execution can end with, as the words they contain.
ErrorMessages == { <<"request", "timeout">>, <<"unknown", "step", "type">> }

NoError  == <<>>
NoOutput == "none"

RunTerminal == {"completed", "failed", "cancelled", "budget_exceeded", "timeout"}
RunStatuses == {"pending", "running"} \cup RunTerminal

NoPoll == [backlog |-> 0, inflight |-> 0]

IdleTask == [pc |-> "idle", msg |-> 0, tokens |-> 0, err |-> NoError, calls |-> 0,
             snapTokens |-> 0, snapCost |-> 0, seen |-> "none", runSeen |-> "none"]

\* The Run of the worker specification: started, no step finished yet.
InitRun == [status |-> "running", token_budget |-> 1,
            tokens_used |-> 0, estimated_cost_usd |-> 0,
            started_at |-> 0, completed_at |-> -1, duration_seconds |-> -1,
            error_message |-> "none", current_step |-> "none"]

NoCancel == [pc |-> "idle", row |-> InitRun, http |-> 0]

InitStep == [status |-> "queued", attempt_number |-> 1, max_attempts |-> 3,
             output_data |-> NoOutput, error_message |-> NoError,
             tokens_used |-> 0, cost_usd |-> 0]

----------------------------------------------------------------------------
\* Pure functions of the worker

\* StepExecutor._is_retryable_error: some retryable pattern occurs in str(e).
is_retryable_error(e) ==
    \E i \in 1..Len(e) : e[i] \in {"timeout", "connection", "rate limit", "503", "502", "500"}

\* Decimal digits of a natural number, most significant first.
RECURSIVE Digits(_)
Digits(n) == IF n < 10 THEN <<n>> ELSE Append(Digits(n \div 10), n % 10)

\* The digit sequence d occurs in the decimal text of n.
OccursIn(d, n) ==
    LET t == Digits(n) IN
    \E i \in 1..(Len(t) - Len(d) + 1) : \A j \in 1..Len(d) : t[i + j - 1] = d[j]

\* The parts of the decimal text of n that a retryable pattern can match.
NumberText(n) ==
    (IF OccursIn(<<5, 0, 0>>, n) THEN <<"500">> ELSE <<>>)
    \o (IF OccursIn(<<5, 0, 2>>, n) THEN <<"502">> ELSE <<>>)
    \o (IF OccursIn(<<5, 0, 3>>, n) THEN <<"503">> ELSE <<>>)

\* str() of the worker's BudgetExceededError: the "message" of the gateway's 402
\* body, f"Budget exceeded: {current_usage}/{budget} tokens", in lower case.
budget_exceeded_message(current_usage, budget) ==
    <<"budget exceeded">> \o NumberText(current_usage) \o <<"/">> \o NumberText(budget)
    \o <<"tokens">>

\* The status execute() persists after a failure.
FailureStatus(e, attempt) ==
    IF is_retryable_error(e) /\ attempt < STEP_MAX_RETRIES THEN "retrying" ELSE "failed"

\* _process_message: whether a failed result leaves the message for redelivery.
LeaveForRetry(e, attempt) ==
    is_retryable_error(e) /\ attempt < STEP_MAX_RETRIES

\* StepExecutor._update_step_status: status always, the other columns only when the
\* argument is truthy.
update_step_status(row, status, output_data, error_message, tokens_used, cost_usd) ==
    [row EXCEPT !.status = status,
                !.output_data = IF output_data # NoOutput THEN output_data ELSE @,
                !.error_message = IF error_message # NoError THEN error_message ELSE @,
                !.tokens_used = IF tokens_used # 0 THEN tokens_used ELSE @,
                !.cost_usd = IF cost_usd # 0 THEN cost_usd ELSE @]

\* StepExecutor._update_run_usage: "+=" on the Run object the session loaded; the
\* flush writes a column only when its value differs from the loaded one.
update_run_usage(row, loadedTokens, loadedCost, tokens, cost) ==
    [row EXCEPT !.tokens_used = IF tokens # 0 THEN loadedTokens + tokens ELSE @,
                !.estimated_cost_usd = IF cost # 0 THEN loadedCost + cost ELSE @]

\* _process_message: json.loads succeeds and none of the required fields run_id,
\* step_id, step_name, step_type is missing (attempt is read with a default of 1).
passes_validation(b) == b.form \in {"complete", "no_attempt"}

\* Tokens a dispatch of the given type can report.
TokenValues(type) == IF type = "llm" THEN 0..MaxTokens ELSE {0}

\* The transaction of task w holds the row lock of step s (UPDATE flushed, not committed).
HoldsStepLock(w, s) ==
    /\ task[w].pc \in {"running", "ok", "err"}
    /\ body[task[w].msg].step_id = s

Holds(w, m) == task[w].pc # "idle" /\ task[w].msg = m

----------------------------------------------------------------------------
\* Orchestrator worker: SQSHandler._process_message and StepExecutor.execute

Outputs == {"text"}

\* The attempt a queued message carries: a fresh message, or one on its last attempt.
AttemptValues == {1, STEP_MAX_RETRIES}

\* Cost the gateway reports with a usage of t tokens (one cost unit per token).
CostOf(t) == t

WorkerInit ==
    /\ body \in [Msgs -> [step_id : Steps, attempt : AttemptValues, step_type : StepTypes,
                           form : {"complete"}]]
    /\ \A m \in Msgs : body[m].step_id = m /\ body[m].step_type = StepTypeOf(m)
    /\ queue = [m \in Msgs |-> "visible"]
    /\ dlq = {}
    /\ dlqConfigured \in BOOLEAN
    /\ step = [s \in Steps |-> InitStep]
    /\ run = InitRun
    /\ task = [w \in Tasks |-> IdleTask]
    /\ faults = 0
    /\ lastAttempt = [s \in Steps |-> 0]
    /\ poll = NoPoll
    /\ cancel = NoCancel

\* SQSHandler._receive_messages: a visible message is handed to a task and becomes
\* invisible for the visibility timeout.
Receive(w, m) ==
    /\ task[w].pc = "idle"
    /\ queue[m] = "visible"
    /\ queue' = [queue EXCEPT ![m] = "inflight"]
    /\ task' = [task EXCEPT ![w] = [IdleTask EXCEPT !.pc = "received", !.msg = m,
                                    !.seen = step[body[m].step_id].status,
                                    !.runSeen = run.status]]
    /\ UNCHANGED <<body, dlq, dlqConfigured, step, run, faults, lastAttempt, nonWorker>>

\* The visibility timeout of an in-flight message runs out.  While a task still
\* processes the message this is an environment fault (processing outlived the timeout).
Redeliver(m) ==
    /\ queue[m] = "inflight"
    /\ \/ /\ \A w \in Tasks : ~Holds(w, m)
          /\ faults' = faults
       \/ /\ \E w \in Tasks : Holds(w, m)
          /\ faults < MaxFaults
          /\ faults' = faults + 1
    /\ queue' = [queue EXCEPT ![m] = "visible"]
    /\ UNCHANGED <<body, dlq, dlqConfigured, step, run, task, lastAttempt, nonWorker>>

\* _process_message up to execute(): the body parses and has the required fields;
\* execute() opens a session and flushes status = running (row lock, not committed).
ExecStart(w) ==
    LET s == body[task[w].msg].step_id IN
    /\ task[w].pc = "received"
    /\ passes_validation(body[task[w].msg])
    /\ \A v \in Tasks : ~HoldsStepLock(v, s)
    /\ task' = [task EXCEPT ![w].pc = "running"]
    /\ lastAttempt' = [lastAttempt EXCEPT ![s] = body[task[w].msg].attempt]
    /\ UNCHANGED <<body, queue, dlq, dlqConfigured, step, run, faults, nonWorker>>

\* A database error in execute(): the first _update_step_status raises, the handler's
\* own _update_step_status raises again, execute() raises into _process_message's
\* "except Exception", which leaves the message in the queue.
ExecRaises(w) ==
    /\ task[w].pc = "received"
    /\ passes_validation(body[task[w].msg])
    /\ task' = [task EXCEPT ![w] = IdleTask]
    /\ UNCHANGED <<body, queue, dlq, dlqConfigured, step, run, faults, lastAttempt, nonWorker>>

\* The dispatch by step type returns a result; the session has the Run loaded
\* (_get_run for llm, the select of _update_run_usage otherwise).
DispatchOk(w) ==
    /\ task[w].pc = "running"
    /\ \E t \in TokenValues(body[task[w].msg].step_type) :
         task' = [task EXCEPT ![w].pc = "ok", ![w].tokens = t,
                              ![w].snapTokens = run.tokens_used,
                              ![w].snapCost = run.estimated_cost_usd]
    /\ UNCHANGED <<body, queue, dlq, dlqConfigured, step, run, faults, lastAttempt, nonWorker>>

\* The dispatch raises; execute() catches the exception.
DispatchFails(w) ==
    /\ task[w].pc = "running"
    /\ \E e \in ErrorMessages : task' = [task EXCEPT ![w].pc = "err", ![w].err = e]
    /\ UNCHANGED <<body, queue, dlq, dlqConfigured, step, run, faults, lastAttempt, nonWorker>>

\* execute(), success branch: Step -> success, Run usage, commit; then
\* _process_message goes on to delete the message.
CommitSuccess(w) ==
    LET s == body[task[w].msg].step_id
        t == task[w].tokens IN
    /\ task[w].pc = "ok"
    /\ \E o \in Outputs :
         step' = [step EXCEPT ![s] = update_step_status(@, "success", o, NoError, t, CostOf(t))]
    /\ run' = update_run_usage(run, task[w].snapTokens, task[w].snapCost, t, CostOf(t))
    /\ task' = [task EXCEPT ![w].pc = "deleting"]
    /\ UNCHANGED <<body, queue, dlq, dlqConfigured, faults, lastAttempt, nonWorker>>

\* execute(), failure branch: Step -> retrying or failed with the error message, commit.
CommitFailure(w) ==
    LET s == body[task[w].msg].step_id
        a == body[task[w].msg].attempt IN
    /\ task[w].pc = "err"
    /\ step' = [step EXCEPT ![s] =
                  update_step_status(@, FailureStatus(task[w].err, a), NoOutput, task[w].err, 0, 0)]
    /\ task' = [task EXCEPT ![w].pc = "failed"]
    /\ UNCHANGED <<body, queue, dlq, dlqConfigured, run, faults, lastAttempt, nonWorker>>

\* _process_message, failed result and retry allowed: the message is left in the queue.
LeaveInQueue(w) ==
    /\ task[w].pc = "failed"
    /\ LeaveForRetry(task[w].err, body[task[w].msg].attempt)
    /\ task' = [task EXCEPT ![w] = IdleTask]
    /\ UNCHANGED <<body, queue, dlq, dlqConfigured, step, run, faults, lastAttempt, nonWorker>>

\* _move_to_dlq without a configured DLQ: the message is only deleted.
move_to_dlq_unconfigured(w) ==
    /\ task[w].pc = "failed"
    /\ ~LeaveForRetry(task[w].err, body[task[w].msg].attempt)
    /\ ~dlqConfigured
    /\ task' = [task EXCEPT ![w].pc = "deleting"]
    /\ UNCHANGED <<body, queue, dlq, dlqConfigured, step, run, faults, lastAttempt, nonWorker>>

\* _move_to_dlq: the copy with dlq_reason and original_message_id is sent to the DLQ.
move_to_dlq_send(w) ==
    /\ task[w].pc = "failed"
    /\ ~LeaveForRetry(task[w].err, body[task[w].msg].attempt)
    /\ dlqConfigured
    /\ dlq' = dlq \cup {[original_message_id |-> task[w].msg, dlq_reason |-> task[w].err]}
    /\ task' = [task EXCEPT ![w].pc = "deleting"]
    /\ UNCHANGED <<body, queue, dlqConfigured, step, run, faults, lastAttempt, nonWorker>>

\* _move_to_dlq: send_message fails; the exception is logged and swallowed.
move_to_dlq_send_fails(w) ==
    /\ task[w].pc = "failed"
    /\ ~LeaveForRetry(task[w].err, body[task[w].msg].attempt)
    /\ dlqConfigured
    /\ faults < MaxFaults
    /\ faults' = faults + 1
    /\ task' = [task EXCEPT ![w] = IdleTask]
    /\ UNCHANGED <<body, queue, dlq, dlqConfigured, step, run, lastAttempt, nonWorker>>

\* SQSHandler._delete_message.
delete_message(w) ==
    /\ task[w].pc = "deleting"
    /\ queue' = [queue EXCEPT ![task[w].msg] = "deleted"]
    /\ task' = [task EXCEPT ![w] = IdleTask]
    /\ UNCHANGED <<body, dlq, dlqConfigured, step, run, faults, lastAttempt, nonWorker>>

\* _delete_message: delete_message fails (ClientError, logged and swallowed).
delete_message_fails(w) ==
    /\ task[w].pc = "deleting"
    /\ faults < MaxFaults
    /\ faults' = faults + 1
    /\ task' = [task EXCEPT ![w] = IdleTask]
    /\ UNCHANGED <<body, queue, dlq, dlqConfigured, step, run, lastAttempt, nonWorker>>

\* The worker process dies: the open transaction is rolled back, the message stays
\* in flight until its visibility timeout.
Crash(w) ==
    /\ task[w].pc # "idle"
    /\ faults < MaxFaults
    /\ faults' = faults + 1
    /\ task' = [task EXCEPT ![w] = IdleTask]
    /\ UNCHANGED <<body, queue, dlq, dlqConfigured, step, run, lastAttempt, nonWorker>>

Next ==
    \/ \E w \in Tasks, m \in Msgs : Receive(w, m)
    \/ \E m \in Msgs : Redeliver(m)
    \/ \E w \in Tasks : ExecStart(w)
    \/ \E w \in Tasks : ExecRaises(w)
    \/ \E w \in Tasks : DispatchOk(w)
    \/ \E w \in Tasks : DispatchFails(w)
    \/ \E w \in Tasks : CommitSuccess(w)
    \/ \E w \in Tasks : CommitFailure(w)
    \/ \E w \in Tasks : LeaveInQueue(w)
    \/ \E w \in Tasks : move_to_dlq_unconfigured(w)
    \/ \E w \in Tasks : move_to_dlq_send(w)
    \/ \E w \in Tasks : move_to_dlq_send_fails(w)
    \/ \E w \in Tasks : delete_message(w)
    \/ \E w \in Tasks : delete_message_fails(w)
    \/ \E w \in Tasks : Crash(w)

\* Values of the LLM gateway

NumReqs      == 2   \* completion requests of the tenant
MaxRateLimit == 2   \* largest configured requests-per-window limit
MaxBudget    == 2   \* largest token_budget_monthly
MaxEst       == 1   \* largest token estimate of a request
TickSeconds  == 30  \* seconds that pass in one step of the fast store's clock

RATE_LIMIT_WINDOW_SECONDS == 60
BUDGET_CACHE_TTL          == 60
BUDGET_SOFT_LIMIT_PERCENT == 80

Reqs == 1..NumReqs

NoLimit == 0        \* limit=None

NewReq == [pc |-> "new", est |-> 0, count |-> 0, win |-> -1, charged |-> 0,
           soft_limit_reached |-> FALSE, tokens |-> 0, http |-> 0, retry_after |-> 0]

NoRateKey  == [count |-> 0, ttl |-> 0]
NoCache    == [present |-> FALSE, budget_monthly |-> 0, used_current_month |-> 0, ttl |-> 0]

\* Values of the provider router

MaxFailMax == 2     \* largest configured CIRCUIT_BREAKER_FAILURE_THRESHOLD

CIRCUIT_BREAKER_TIMEOUT == 60

ProviderNames     == {"openai", "anthropic"}
PROVIDER_PRIORITY == <<"openai", "anthropic", "local">>

\* Models a request names: one of a provider's table, and one of no table.
Models == {"gpt-4", "llama-2"}

\* supported_models of the two providers as shipped ...
ShippedModels == [p \in ProviderNames |->
                    IF p = "openai" THEN {"gpt-4"} ELSE {"claude-3-opus"}]

\* ... and the tables the router is run against: the shipped ones, and the ones in which
\* each provider also serves the other provider's model (the router sees a table only
\* through supports_model).
ModelTables == {ShippedModels, [p \in ProviderNames |-> {"gpt-4", "claude-3-opus"}]}

\* self.providers after _init_providers: the providers whose API key is configured, in
\* the order of registration (openai alone, or both).
Registrations == {<<"openai">>, <<"openai", "anthropic">>}

NoResponse == [provider |-> "none", is_fallback |-> FALSE, attempted_providers |-> <<>>]

NoRoute == [model |-> "none", preferred |-> "none", path |-> "none",
            candidates |-> <<>>, attempted |-> <<>>, last_error |-> "none",
            entered |-> "none", answer |-> "none", response |-> NoResponse,
            error |-> "none"]

NewBreaker(fail_max) == [state |-> "closed", fail_counter |-> 0, fail_max |-> fail_max,
                         wait |-> 0, streak |-> 0]

RouterIdle ==
    /\ providers = [registered |-> <<"openai", "anthropic">>, supported_models |-> ShippedModels]
    /\ breaker = [p \in ProviderNames |-> NewBreaker(1)]
    /\ rt = [r \in Reqs |-> NoRoute]

\* The subsystems a specification leaves alone stay in these states.
GatewayIdle ==
    /\ cfgRateLimit = 1
    /\ tenant = [token_budget_monthly |-> 1, token_used_current_month |-> 0]
    /\ rate = NoRateKey
    /\ budgetCache = NoCache
    /\ usageCounter = 0
    /\ events = {}
    /\ req = [r \in Reqs |-> NewReq]
    /\ window = 0
    /\ RouterIdle

Init == WorkerInit /\ now = 0 /\ GatewayIdle

Spec == Init /\ [][Next]_vars

\* Worker with the scheduling the code gives: the polling loop keeps receiving, SQS
\* redelivers after the visibility timeout, every started task runs on.  Which result
\* a dispatch has is not a matter of fairness.
TaskStep(w) ==
    \/ ExecStart(w) \/ ExecRaises(w) \/ DispatchOk(w) \/ DispatchFails(w)
    \/ CommitSuccess(w) \/ CommitFailure(w) \/ LeaveInQueue(w)
    \/ move_to_dlq_unconfigured(w) \/ move_to_dlq_send(w) \/ delete_message(w)

FairSpec ==
    /\ Init /\ [][Next]_vars
    /\ \A w \in Tasks : WF_vars(TaskStep(w))
    /\ \A m \in Msgs : WF_vars(Redeliver(m))
    /\ \A m \in Msgs : SF_vars(\E w \in Tasks : Receive(w, m))

----------------------------------------------------------------------------
\* Control plane: routers/runs.py

MaxTime == 3        \* the clock stops here (in clock units)
UnitsPerSecond == 2 \* clock units per second

NoTime == -1        \* a NULL timestamp or duration

ErrorTexts == {"none", "boom"}          \* RunStatusUpdate.error_message ("none": not given)
StepNames  == {"none", "step_1"}        \* RunStatusUpdate.current_step ("none": not given)

\* int((completed_at - started_at).total_seconds())
duration_seconds(started_at, completed_at) == (completed_at - started_at) \div UnitsPerSecond

\* update_run_status: the new Run row.
update_run_status(row, status, error_message, current_step, t) ==
    LET r1 == [row EXCEPT !.status = status]
        r2 == IF status = "running" /\ r1.started_at = NoTime
              THEN [r1 EXCEPT !.started_at = t] ELSE r1
        r3 == IF status \in RunTerminal /\ r2.completed_at = NoTime
              THEN [r2 EXCEPT !.completed_at = t,
                              !.duration_seconds =
                                  IF r2.started_at # NoTime
                                  THEN duration_seconds(r2.started_at, t) ELSE @]
              ELSE r2
        r4 == IF error_message # "none" THEN [r3 EXCEPT !.error_message = error_message] ELSE r3
    IN  IF current_step # "none" THEN [r4 EXCEPT !.current_step = current_step] ELSE r4

\* cancel_run: the statuses it accepts, and the new Run row.
cancellable(row) == row.status \in {"pending", "running"}

cancel_run(row, t) ==
    [row EXCEPT !.status = "cancelled",
                !.completed_at = t,
                !.duration_seconds = IF row.started_at # NoTime
                                     THEN duration_seconds(row.started_at, t) ELSE @]

NewRun == [status |-> "pending", token_budget |-> 1,
           tokens_used |-> 0, estimated_cost_usd |-> 0,
           started_at |-> NoTime, completed_at |-> NoTime, duration_seconds |-> NoTime,
           error_message |-> "none", current_step |-> "none"]

WorkerIdle ==
    /\ body = [m \in Msgs |-> [step_id |-> m, attempt |-> 1, step_type |-> StepTypeOf(m),
                               form |-> "complete"]]
    /\ queue = [m \in Msgs |-> "deleted"]
    /\ dlq = {}
    /\ dlqConfigured = TRUE
    /\ step = [s \in Steps |-> InitStep]
    /\ task = [w \in Tasks |-> IdleTask]
    /\ faults = 0
    /\ lastAttempt = [s \in Steps |-> 0]
    /\ poll = NoPoll
    /\ cancel = NoCancel

ControlInit == run = NewRun /\ now = 0 /\ WorkerIdle /\ GatewayIdle

\* PUT /runs/{run_id}/status
UpdateRunStatus ==
    /\ \E st \in RunStatuses, em \in ErrorTexts, cs \in StepNames :
          run' = update_run_status(run, st, em, cs, now)
    /\ UNCHANGED <<now, workerVars, gatewayVars>>

\* DELETE /runs/{run_id}: rejected with 400 unless the Run is pending or running.
CancelRun ==
    /\ cancellable(run)
    /\ run' = cancel_run(run, now)
    /\ UNCHANGED <<now, workerVars, gatewayVars>>

ClockTick ==
    /\ now < MaxTime
    /\ now' = now + 1
    /\ UNCHANGED <<run, workerVars, gatewayVars>>

ControlNext == UpdateRunStatus \/ CancelRun \/ ClockTick

ControlSpec == ControlInit /\ [][ControlNext]_vars

----------------------------------------------------------------------------
\* LLM gateway: main.py, utils/budget.py

\* check_rate_limit: "limit = limit or settings.RATE_LIMIT_REQUESTS_PER_MINUTE"
effective_limit(limit) == IF limit # NoLimit THEN limit ELSE cfgRateLimit

\* A rate check that admits one request fewer.
check_rate_limit_strict(current_count, limit) ==
    [allowed       |-> current_count < effective_limit(limit),
     limit         |-> effective_limit(limit),
     current       |-> current_count,
     remaining     |-> Max(0, effective_limit(limit) - current_count),
     reset_seconds |-> RATE_LIMIT_WINDOW_SECONDS]

\* check_rate_limit: the result for the post-increment count.
check_rate_limit(current_count, limit) ==
    [allowed       |-> current_count <= effective_limit(limit),
     limit         |-> effective_limit(limit),
     current       |-> current_count,
     remaining     |-> Max(0, effective_limit(limit) - current_count),
     reset_seconds |-> RATE_LIMIT_WINDOW_SECONDS]

\* A hard limit that lets a request land exactly on the budget.
check_limits_over(budget_monthly, used_current_month, estimated_tokens) ==
    LET hard == (used_current_month + estimated_tokens) > budget_monthly
        soft == used_current_month * 100 >= budget_monthly * BUDGET_SOFT_LIMIT_PERCENT /\ ~hard
    IN  [allowed |-> ~hard,
         budget_monthly |-> budget_monthly,
         used_current_month |-> used_current_month,
         remaining |-> Max(0, budget_monthly - used_current_month),
         soft_limit_reached |-> soft,
         hard_limit_reached |-> hard]

\* _check_limits. The soft threshold is the float budget_monthly * 0.8; for integers the
\* comparison with it agrees with the comparison of the hundredfolds.
check_limits(budget_monthly, used_current_month, estimated_tokens) ==
    LET hard == (used_current_month + estimated_tokens) >= budget_monthly
        soft == used_current_month * 100 >= budget_monthly * BUDGET_SOFT_LIMIT_PERCENT /\ ~hard
    IN  [allowed |-> ~hard,
         budget_monthly |-> budget_monthly,
         used_current_month |-> used_current_month,
         remaining |-> Max(0, budget_monthly - used_current_month),
         soft_limit_reached |-> soft,
         hard_limit_reached |-> hard]

\* Sum of total_tokens over a set of LLMEvent rows.
RECURSIVE TotalTokens(_)
TotalTokens(E) ==
    IF E = {} THEN 0
    ELSE LET e == CHOOSE x \in E : TRUE IN e.total_tokens + TotalTokens(E \ {e})

GatewayInit ==
    /\ cfgRateLimit \in 1..MaxRateLimit
    /\ tenant \in [token_budget_monthly : 1..MaxBudget, token_used_current_month : {0}]
    /\ rate = NoRateKey
    /\ budgetCache = NoCache
    /\ usageCounter = 0
    /\ events = {}
    /\ req = [r \in Reqs |-> NewReq]
    /\ window = 0
    /\ RouterIdle
    /\ now = 0 /\ run = NewRun /\ WorkerIdle

gatewayRest == <<now, run, workerVars, routerVars>>

\* check_rate_limit, the pipeline: INCR ratelimit:{tenant}; EXPIRE ratelimit:{tenant} window
\* (one MULTI/EXEC). Requests are numbered in the order they reach the fast store.
RateIncr(r) ==
    /\ req[r].pc = "new"
    /\ \A q \in 1..(r - 1) : req[q].pc # "new"
    /\ rate' = [count |-> rate.count + 1, ttl |-> RATE_LIMIT_WINDOW_SECONDS]
    /\ req' = [req EXCEPT ![r] = [@ EXCEPT !.pc = "incremented",
                                            !.count = rate.count + 1, !.win = window]]
    /\ UNCHANGED <<cfgRateLimit, tenant, budgetCache, usageCounter, events, window, gatewayRest>>

\* create_completion: the rate check admits the request ...
RateAdmit(r) ==
    /\ req[r].pc = "incremented"
    /\ check_rate_limit(req[r].count, NoLimit).allowed
    /\ req' = [req EXCEPT ![r].pc = "rate_ok"]
    /\ UNCHANGED <<cfgRateLimit, tenant, rate, budgetCache, usageCounter, events, window, gatewayRest>>

\* ... or raises RateLimitError(tenant_id, reset_seconds); rate_limit_handler answers
\* 429 with Retry-After = retry_after.
RateReject(r) ==
    /\ req[r].pc = "incremented"
    /\ ~check_rate_limit(req[r].count, NoLimit).allowed
    /\ req' = [req EXCEPT ![r] = [@ EXCEPT !.pc = "rejected", !.http = 429,
                  !.retry_after = check_rate_limit(req[r].count, NoLimit).reset_seconds]]
    /\ UNCHANGED <<cfgRateLimit, tenant, rate, budgetCache, usageCounter, events, window, gatewayRest>>

\* A check whose refusal does not stop the request.
raise_never(allowed, pc) == pc

\* create_completion raises when a check does not allow, and goes on when it does.
raise_unless(allowed, pc) == IF allowed THEN pc ELSE "rejected"

\* check_budget, cache hit: the limits are checked on the cached values.
\* check_budget, cache miss: the Tenant row is read, cached for 60 seconds, and checked.
\* create_completion raises BudgetExceededError (402) when the check does not allow.
\* est is the estimate computed from the request's messages.
\* (charged: history, the tokens completed requests had been charged when the check ran;
\* est and charged are kept until the request is routed.)
BudgetCheck(r) ==
    /\ req[r].pc = "rate_ok"
    /\ \E e \in 0..MaxEst :
       LET budget == IF budgetCache.present THEN budgetCache.budget_monthly
                                            ELSE tenant.token_budget_monthly
           used   == IF budgetCache.present THEN budgetCache.used_current_month
                                            ELSE tenant.token_used_current_month
           res    == check_limits(budget, used, e)
       IN  /\ budgetCache' = IF budgetCache.present THEN budgetCache
                             ELSE [present |-> TRUE, budget_monthly |-> budget,
                                   used_current_month |-> used, ttl |-> BUDGET_CACHE_TTL]
           /\ req' = [req EXCEPT ![r] = [@ EXCEPT
                        !.est = e,
                        !.pc = raise_unless(res.allowed, "budget_ok"),
                        !.http = IF res.allowed THEN @ ELSE 402,
                        !.soft_limit_reached = res.soft_limit_reached,
                        !.charged = tenant.token_used_current_month + TotalTokens(events)]]
    /\ UNCHANGED <<cfgRateLimit, tenant, rate, usageCounter, events, window, gatewayRest>>

\* router.route returns a response with its actual usage ...
RouteOk(r) ==
    /\ req[r].pc = "budget_ok"
    /\ \E t \in 1..MaxTokens :
          req' = [req EXCEPT ![r] = [@ EXCEPT !.pc = "routed", !.tokens = t,
                                              !.est = 0, !.charged = 0]]
    /\ UNCHANGED <<cfgRateLimit, tenant, rate, budgetCache, usageCounter, events, window, gatewayRest>>

\* ... or raises ProviderError; provider_error_handler answers 503.
RouteFails(r) ==
    /\ req[r].pc = "budget_ok"
    /\ req' = [req EXCEPT ![r] = [@ EXCEPT !.pc = "rejected", !.http = 503,
                                            !.est = 0, !.charged = 0]]
    /\ UNCHANGED <<cfgRateLimit, tenant, rate, budgetCache, usageCounter, events, window, gatewayRest>>

\* _log_llm_event: db.add(event); flush. The row is not committed yet.
LogEvent(r) ==
    /\ req[r].pc = "routed"
    /\ req' = [req EXCEPT ![r].pc = "logged"]
    /\ UNCHANGED <<cfgRateLimit, tenant, rate, budgetCache, usageCounter, events, window, gatewayRest>>

\* increment_usage: INCRBY budget:{tenant}:counter total_tokens
IncrementUsage(r) ==
    /\ req[r].pc = "logged"
    /\ usageCounter' = usageCounter + req[r].tokens
    /\ req' = [req EXCEPT ![r].pc = "counted"]
    /\ UNCHANGED <<cfgRateLimit, tenant, rate, budgetCache, events, window, gatewayRest>>

\* get_db: the session commits after the handler returned; the response is 200, and the
\* request's routing data are released with it.
CommitRequest(r) ==
    /\ req[r].pc = "counted"
    /\ events' = events \cup {[req |-> r, total_tokens |-> req[r].tokens]}
    /\ req' = [req EXCEPT ![r] = [@ EXCEPT !.pc = "done", !.http = 200]]
    /\ rt' = [rt EXCEPT ![r] = NoRoute]
    /\ UNCHANGED <<cfgRateLimit, tenant, rate, budgetCache, usageCounter, window,
                   now, run, workerVars, providers, breaker>>

\* increment_usage raises (the fast store cannot be reached): the exception leaves the
\* handler, get_db rolls the session back and the request is answered 500.
IncrementUsageFails(r) ==
    /\ req[r].pc = "logged"
    /\ req' = [req EXCEPT ![r] = [@ EXCEPT !.pc = "rejected", !.http = 500]]
    /\ UNCHANGED <<cfgRateLimit, tenant, rate, budgetCache, usageCounter, events, window, gatewayRest>>

\* get_db: session.commit() raises after the handler returned (the database cannot be
\* reached): the session is rolled back, the LLMEvent row is lost; INCRBY has been done.
CommitFails(r) ==
    /\ req[r].pc = "counted"
    /\ req' = [req EXCEPT ![r] = [@ EXCEPT !.pc = "rejected", !.http = 500]]
    /\ UNCHANGED <<cfgRateLimit, tenant, rate, budgetCache, usageCounter, events, window, gatewayRest>>

\* The fast store's clock: TTLs run down, and a key whose TTL ran out is removed.
expire(ttl) == Max(0, ttl - TickSeconds)

StoreTick ==
    /\ rate.count > 0 \/ budgetCache.present
    /\ rate' = IF rate.count > 0 /\ expire(rate.ttl) > 0
               THEN [rate EXCEPT !.ttl = expire(rate.ttl)] ELSE NoRateKey
    /\ window' = IF rate.count > 0 /\ expire(rate.ttl) = 0 THEN window + 1 ELSE window
    /\ budgetCache' = IF budgetCache.present /\ expire(budgetCache.ttl) > 0
                      THEN [budgetCache EXCEPT !.ttl = expire(budgetCache.ttl)] ELSE NoCache
    /\ UNCHANGED <<cfgRateLimit, tenant, usageCounter, events, req, gatewayRest>>

GatewayNext ==
    \/ \E r \in Reqs : RateIncr(r)
    \/ \E r \in Reqs : RateAdmit(r)
    \/ \E r \in Reqs : RateReject(r)
    \/ \E r \in Reqs : BudgetCheck(r)
    \/ \E r \in Reqs : RouteOk(r)
    \/ \E r \in Reqs : RouteFails(r)
    \/ \E r \in Reqs : LogEvent(r)
    \/ \E r \in Reqs : IncrementUsage(r)
    \/ \E r \in Reqs : CommitRequest(r)
    \/ \E r \in Reqs : IncrementUsageFails(r)
    \/ \E r \in Reqs : CommitFails(r)
    \/ StoreTick

GatewaySpec == GatewayInit /\ [][GatewayNext]_vars

\* The gateway process keeps running: a step that stays possible is taken in the end.
GatewayFairSpec == GatewaySpec /\ WF_vars(GatewayNext)

\* The budget check on its own: requests that passed the rate check, for a tenant row
\* with any budget and any usage of the month.
MaxMonthly == 5     \* largest token_budget_monthly and token_used_current_month

LimitsInit ==
    /\ cfgRateLimit = 1
    /\ tenant \in [token_budget_monthly : 0..MaxMonthly, token_used_current_month : 0..MaxMonthly]
    /\ rate = NoRateKey
    /\ budgetCache = NoCache
    /\ usageCounter = 0
    /\ events = {}
    /\ req = [r \in Reqs |-> [NewReq EXCEPT !.pc = "rate_ok"]]
    /\ window = 0
    /\ RouterIdle
    /\ now = 0 /\ run = NewRun /\ WorkerIdle

LimitsNext ==
    \/ \E r \in Reqs : BudgetCheck(r)
    \/ StoreTick

LimitsSpec == LimitsInit /\ [][LimitsNext]_vars

----------------------------------------------------------------------------
\* Provider router and circuit breakers: providers/router.py

\* _get_provider_by_name: the registered provider of that name, or None
get_provider_by_name(name) ==
    IF \E i \in 1..Len(providers.registered) : providers.registered[i] = name
    THEN name ELSE "none"

\* BaseLLMProvider.supports_model: "model in self.supported_models"
supports_model(p, model) == model \in providers.supported_models[p]

InSeq(x, seq) == \E i \in 1..Len(seq) : seq[i] = x

\* _get_providers_for_model: capable providers in priority order, then the remaining
\* capable providers in registration order.
get_providers_for_model(model) ==
    LET ByPriority(name) == get_provider_by_name(name) # "none" /\ supports_model(name, model)
        capable == SelectSeq(PROVIDER_PRIORITY, ByPriority)
        Remaining(p) == ~InSeq(p, capable) /\ supports_model(p, model)
    IN  capable \o SelectSeq(providers.registered, Remaining)

\* CircuitBreaker(expected_exception=ProviderError): the exceptions that count as failures.
counts_as_failure(exception) == exception = "provider_error"

\* The breaker before a call: an open breaker rejects the call until its timeout has
\* passed, and then lets it through half-open.
breaker_rejects(b) == b.state = "open" /\ b.wait > 0

before_call(b) == IF b.state = "open" /\ b.wait = 0 THEN [b EXCEPT !.state = "half_open"] ELSE b

entered_as(b) == IF before_call(b).state = "half_open" THEN "half_open" ELSE "closed"

\* A breaker that a successful half-open call leaves as it is.
on_success_keeps(b, entered) == [b EXCEPT !.fail_counter = 0]

\* The breaker after a call that returned, or that raised an exception which does not
\* count: the failure counter is reset, and a half-open call closes the breaker.
on_success(b, entered) ==
    [b EXCEPT !.fail_counter = 0,
              !.state = IF entered = "half_open" THEN "closed" ELSE @,
              !.wait  = IF entered = "half_open" THEN 0 ELSE @]

\* The breaker after a call that raised a counted exception: the counter grows; at
\* fail_max, or for a half-open call, the breaker opens for the full timeout and the
\* caller gets CircuitBreakerError in place of the exception.
trips_after(b, entered) == entered = "half_open" \/ b.fail_counter + 1 > b.fail_max

trips(b, entered) == entered = "half_open" \/ b.fail_counter + 1 >= b.fail_max

on_failure(b, entered) ==
    [b EXCEPT !.fail_counter = @ + 1,
              !.state = IF trips(b, entered) THEN "open" ELSE @,
              !.wait  = IF trips(b, entered) THEN CIRCUIT_BREAKER_TIMEOUT ELSE @]

\* _execute_with_circuit_breaker: the breaker after the call ended with that exception
\* ("none": it returned).
\* (streak: history, the number of calls of the provider that ended in ProviderError
\* since the last call that ended otherwise.)
after_call(b, entered, exception) ==
    [(IF exception # "none" /\ counts_as_failure(exception)
      THEN on_failure(b, entered) ELSE on_success(b, entered))
     EXCEPT !.streak = IF exception = "provider_error" THEN @ + 1 ELSE 0]

raised_by_breaker(b, entered, exception) ==
    IF exception # "none" /\ counts_as_failure(exception) /\ trips(b, entered)
    THEN "circuit_breaker_error" ELSE exception

\* HTTP status of an exception that leaves create_completion: the registered handlers,
\* and 500 for an exception without one.
http_status(exception) ==
    CASE exception \in {"provider_error", "all_providers_failed"} -> 503
      [] exception = "rate_limit_exceeded" -> 429
      [] exception = "budget_exceeded" -> 402
      [] OTHER -> 500

pipelineRest == <<cfgRateLimit, tenant, rate, budgetCache, usageCounter, events, window,
                  now, run, workerVars>>

\* The candidate route() turns to next, and whether it is the last one.
Candidate(r) == IF rt[r].path = "preferred" THEN rt[r].candidates[1]
                ELSE rt[r].candidates[Len(rt[r].attempted) + 1]

LastCandidate(r) == rt[r].path = "preferred" \/ Len(rt[r].attempted) + 1 >= Len(rt[r].candidates)

\* attempted_providers after route() turned to the candidate (the loop appends the name
\* before the call; the preferred-provider branch keeps no list).
Attempted(r) == IF rt[r].path = "preferred" THEN rt[r].attempted
                ELSE Append(rt[r].attempted, Candidate(r))

\* The event loop runs one coroutine until its next await: route() has none between its
\* entry and the provider call, so no other request takes a step in between.
Scheduled(r) == \A q \in Reqs \ {r} : req[q].pc # "routing"

\* A response that is marked as fallback whatever the number of attempts.
is_fallback_always(r) == rt[r].path = "loop"

\* response.is_fallback: the provider's response has False; the loop sets True when the
\* provider was not the first one attempted.
is_fallback(r) == rt[r].path = "loop" /\ Len(Attempted(r)) > 1

\* route(), up to the first attempt: a preferred provider that is registered and supports
\* the model is the only provider tried; otherwise the capable providers are the
\* candidates, and without any the request ends with ModelNotSupportedError.
RouteStart(r) ==
    /\ req[r].pc = "budget_ok"
    /\ Scheduled(r)
    /\ \A q \in 1..(r - 1) : req[q].pc # "budget_ok"
    /\ \E model \in Models, preferred \in {"none"} \cup ProviderNames :
         LET provider == get_provider_by_name(preferred)
             capable  == get_providers_for_model(model)
             start    == [NoRoute EXCEPT !.model = model, !.preferred = preferred]
         IN  IF preferred # "none" /\ provider # "none" /\ supports_model(provider, model)
             THEN /\ rt' = [rt EXCEPT ![r] = [start EXCEPT !.path = "preferred",
                                                         !.candidates = <<provider>>]]
                  /\ req' = [req EXCEPT ![r] = [@ EXCEPT !.pc = "routing", !.est = 0, !.charged = 0]]
             ELSE IF capable = <<>>
             THEN /\ rt' = [rt EXCEPT ![r] = [start EXCEPT !.path = "loop",
                                                         !.error = "model_not_supported"]]
                  /\ req' = [req EXCEPT ![r] = [@ EXCEPT !.pc = "raised", !.est = 0, !.charged = 0]]
             ELSE /\ rt' = [rt EXCEPT ![r] = [start EXCEPT !.path = "loop", !.candidates = capable]]
                  /\ req' = [req EXCEPT ![r] = [@ EXCEPT !.pc = "routing", !.est = 0, !.charged = 0]]
    /\ UNCHANGED <<providers, breaker, pipelineRest>>

\* A loop that catches every exception of an attempt.
caught_in_loop_any(exception) == TRUE

\* The except branches of the loop: CircuitBreakerError and ProviderError.
caught_in_loop(exception) == exception \in {"circuit_breaker_error", "provider_error"}

\* route() after the candidate raised `exception`: CircuitBreakerError and ProviderError
\* are caught in the loop, which goes on to the next candidate or, after the last one,
\* raises ProviderError("all", ..., last_error); any other exception, and every exception
\* of the preferred-provider branch, leaves route() as it is.
\* (answer: history, how the provider call of the attempt ended; "none": no call.)
RouteAfterError(r, exception, answer) ==
    LET caught == rt[r].path = "loop" /\ caught_in_loop(exception)
        raised == IF caught THEN "all_providers_failed" ELSE exception
    IN  IF caught /\ ~LastCandidate(r)
        THEN /\ rt' = [rt EXCEPT ![r] = [@ EXCEPT !.attempted = Attempted(r),
                                                  !.last_error = exception, !.entered = "none",
                                                  !.answer = answer]]
             /\ req' = [req EXCEPT ![r].pc = "routing"]
        ELSE /\ rt' = [rt EXCEPT ![r] = [@ EXCEPT !.attempted = Attempted(r),
                                                  !.last_error = IF caught THEN exception ELSE @,
                                                  !.entered = "none", !.answer = answer,
                                                  !.error = raised]]
             /\ req' = [req EXCEPT ![r].pc = "raised"]

\* The breaker of the candidate is open: CircuitBreakerError without a provider call.
BreakerRejects(r) ==
    /\ req[r].pc = "routing"
    /\ breaker_rejects(breaker[Candidate(r)])
    /\ RouteAfterError(r, "circuit_breaker_error", "none")
    /\ UNCHANGED <<providers, breaker, pipelineRest>>

\* The breaker lets the call through: provider.completion(request) starts.
CallProvider(r) ==
    /\ req[r].pc = "routing"
    /\ ~breaker_rejects(breaker[Candidate(r)])
    /\ breaker' = [breaker EXCEPT ![Candidate(r)] = before_call(@)]
    /\ rt' = [rt EXCEPT ![r].entered = entered_as(breaker[Candidate(r)])]
    /\ req' = [req EXCEPT ![r].pc = "calling"]
    /\ UNCHANGED <<providers, pipelineRest>>

\* The provider returns a response; the loop marks it as fallback after the first
\* candidate and stores its attempted_providers.
CallOk(r) ==
    /\ req[r].pc = "calling"
    /\ Scheduled(r)
    /\ breaker' = [breaker EXCEPT ![Candidate(r)] = after_call(@, rt[r].entered, "none")]
    /\ rt' = [rt EXCEPT ![r] = [@ EXCEPT
                 !.attempted = Attempted(r), !.answer = "ok",
                 !.response = [provider |-> Candidate(r),
                               is_fallback |-> is_fallback(r),
                               attempted_providers |-> IF rt[r].path = "loop" THEN Attempted(r)
                                                       ELSE <<Candidate(r)>>]]]
    /\ \E t \in 1..MaxTokens :
          req' = [req EXCEPT ![r] = [@ EXCEPT !.pc = "routed", !.tokens = t]]
    /\ UNCHANGED <<providers, pipelineRest>>

\* The provider raises ProviderError (API error, timeout, unexpected error).
CallProviderError(r) ==
    /\ req[r].pc = "calling"
    /\ Scheduled(r)
    /\ breaker' = [breaker EXCEPT ![Candidate(r)] = after_call(@, rt[r].entered, "provider_error")]
    /\ RouteAfterError(r, raised_by_breaker(breaker[Candidate(r)], rt[r].entered, "provider_error"),
                        "provider_error")
    /\ UNCHANGED <<providers, pipelineRest>>

\* The provider raises RateLimitError(tenant_id, retry_after=60).
CallRateLimited(r) ==
    /\ req[r].pc = "calling"
    /\ Scheduled(r)
    /\ breaker' = [breaker EXCEPT ![Candidate(r)] = after_call(@, rt[r].entered, "rate_limit_exceeded")]
    /\ RouteAfterError(r, raised_by_breaker(breaker[Candidate(r)], rt[r].entered, "rate_limit_exceeded"),
                        "rate_limit_exceeded")
    /\ UNCHANGED <<providers, pipelineRest>>

\* The exception leaves create_completion: the handler registered for it answers (429
\* with the provider's retry_after of 60 seconds, 503), and an exception without a
\* handler is answered 500. The request's data are released with it; the error named in
\* the body stays (and the history of the last provider call).
ExceptionHandler(r) ==
    /\ req[r].pc = "raised"
    /\ Scheduled(r)
    /\ req' = [req EXCEPT ![r] = [@ EXCEPT !.pc = "rejected", !.http = http_status(rt[r].error),
                 !.retry_after = IF rt[r].error = "rate_limit_exceeded" THEN 60 ELSE @]]
    /\ rt' = [rt EXCEPT ![r] = [NoRoute EXCEPT !.error = rt[r].error, !.answer = rt[r].answer]]
    /\ UNCHANGED <<providers, breaker, pipelineRest>>

\* The clock of the gateway process: the open timeouts run down.
BreakerTick ==
    /\ \E p \in ProviderNames : breaker[p].wait > 0
    /\ \A q \in Reqs : req[q].pc # "routing"
    /\ breaker' = [p \in ProviderNames |-> [breaker[p] EXCEPT !.wait = Max(0, @ - TickSeconds)]]
    /\ UNCHANGED <<providers, rt, req, pipelineRest>>

\* The router with requests that have passed the rate check and the budget check; the
\* pipeline goes on after route() as in GatewaySpec.
RouterInit ==
    /\ providers \in [registered : Registrations, supported_models : ModelTables]
    /\ \E f \in 1..MaxFailMax : breaker = [p \in ProviderNames |-> NewBreaker(f)]
    /\ rt = [r \in Reqs |-> NoRoute]
    /\ req = [r \in Reqs |-> [NewReq EXCEPT !.pc = "budget_ok"]]
    /\ cfgRateLimit = 1
    /\ tenant = [token_budget_monthly |-> 1, token_used_current_month |-> 0]
    /\ rate = NoRateKey
    /\ budgetCache = NoCache
    /\ usageCounter = 0
    /\ events = {}
    /\ window = 0
    /\ now = 0 /\ run = NewRun /\ WorkerIdle

RouterNext ==
    \/ \E r \in Reqs : RouteStart(r)
    \/ \E r \in Reqs : BreakerRejects(r)
    \/ \E r \in Reqs : CallProvider(r)
    \/ \E r \in Reqs : CallOk(r)
    \/ \E r \in Reqs : CallProviderError(r)
    \/ \E r \in Reqs : CallRateLimited(r)
    \/ \E r \in Reqs : ExceptionHandler(r)
    \/ \E r \in Reqs : LogEvent(r)
    \/ \E r \in Reqs : IncrementUsage(r)
    \/ \E r \in Reqs : CommitRequest(r)
    \/ BreakerTick

RouterSpec == RouterInit /\ [][RouterNext]_vars

----------------------------------------------------------------------------
\* Claims about the worker

StepOf(w) == body[task[w].msg].step_id

InDlq(m) == \E d \in dlq : d.original_message_id = m

RECURSIVE SumSuccess(_, _)
SumSuccess(S, field) ==
    IF S = {} THEN 0
    ELSE LET s == CHOOSE x \in S : TRUE IN
         (IF step[s].status = "success" THEN step[s][field] ELSE 0)
           + SumSuccess(S \ {s}, field)

\* C1: once the persisted status of a Step is success or failed it never changes
\* again, whatever message carrying its step_id is delivered later.
C1_TerminalStepNeverChanges ==
    [][\A s \in Steps :
         step[s].status \in {"success", "failed"} => step'[s].status = step[s].status]_vars

\* C2: a message delivered again after its step's success was committed is processed
\* as a no-op: no gateway call, no change of the Step row, no second addition to the
\* Run's tokens_used and estimated_cost_usd.
C2_ReplayAfterSuccessIsNoOp ==
    [][\A w \in Tasks :
         task[w].seen = "success" =>
            /\ ~DispatchOk(w) /\ ~DispatchFails(w)
            /\ ~CommitSuccess(w) /\ ~CommitFailure(w)]_vars

\* C3: a redelivery after a retryable failure is processed with an attempt one higher
\* than the previous delivery, and Step.attempt_number never exceeds max_attempts.
C3_AttemptGrowsWithRedelivery ==
    [][\A w \in Tasks :
         /\ (ExecStart(w) /\ task[w].seen = "retrying")
               => body[task[w].msg].attempt = lastAttempt[StepOf(w)] + 1
         /\ \A s \in Steps : step'[s].attempt_number <= step'[s].max_attempts]_vars

\* C4: under fair polling and redelivery every message eventually leaves the main
\* queue for good (deleted after a success, or moved to the DLQ).
C4_EveryMessageLeavesTheQueue ==
    \A m \in Msgs : <>[](queue[m] = "deleted")

\* C5: after a failed execution the Step status and the disposition of the message
\* agree: left in the main queue (and not in the DLQ) with the Step retrying and the
\* error recorded, or the Step failed and the message in the DLQ with the failure
\* reason and gone from the main queue.
C5_FailureDispositionAgrees ==
    [][\A w \in Tasks :
         /\ LeaveInQueue(w) =>
               /\ step'[StepOf(w)].status = "retrying"
               /\ step'[StepOf(w)].error_message = task[w].err
               /\ queue'[task[w].msg] # "deleted"
               /\ ~InDlq(task[w].msg)'
         /\ (delete_message(w) /\ task[w].err # NoError) =>
               /\ step'[StepOf(w)].status = "failed"
               /\ [original_message_id |-> task[w].msg, dlq_reason |-> task[w].err] \in dlq'
               /\ queue'[task[w].msg] = "deleted"]_vars

\* C6: a message that was executed has left the main queue only with its Step
\* outcome committed: never while the Step row is queued, running or retrying.
C6_OutcomeCommittedBeforeAck ==
    \A m \in Msgs :
        queue[m] = "deleted" => step[body[m].step_id].status \in {"success", "failed"}

\* C7: in every committed state the Run's tokens_used and estimated_cost_usd are the
\* sums over its Steps with status success; concurrent executions lose no update.
C7_RunUsageIsSumOfSuccessSteps ==
    /\ run.tokens_used = SumSuccess(Steps, "tokens_used")
    /\ run.estimated_cost_usd = SumSuccess(Steps, "cost_usd")

----------------------------------------------------------------------------
\* Claims about the control plane

\* C8: a Run in a terminal status is never moved to another status, and re-applying
\* its terminal status changes no field of the Run.
C8_TerminalRunAbsorbing ==
    [][run.status \in RunTerminal =>
          /\ run'.status = run.status
          /\ run' = run]_vars

----------------------------------------------------------------------------
\* Claims about the LLM gateway

\* Requests whose rate check has been decided, requests counted in the current window,
\* and requests the budget check has just admitted.
RateDecided(r) == req[r].pc \notin {"new", "incremented"}
InWindow(r)    == req[r].pc # "new" /\ req[r].win = window
BudgetAdmitted(r) == req[r].pc = "budget_ok"

\* C9: once the tokens charged to the tenant for completed requests (relational
\* token_used_current_month plus what those requests added to the usage counter of the
\* fast store) have reached token_budget_monthly, no later request passes the budget
\* check.
C9_BudgetNeverOverspent ==
    \A r \in Reqs : BudgetAdmitted(r) => req[r].charged < tenant.token_budget_monthly

C11_ExpiryNotExtended ==
    [][rate.count > 0 /\ rate'.count = rate.count + 1 => rate'.ttl = rate.ttl]_vars

----------------------------------------------------------------------------
\* Claims about the provider router

\* The requests whose route() has returned a response that is still being processed.
Routed(r) == req[r].pc \in {"routed", "logged", "counted"}

\* C12: when route() succeeds with the j-th candidate, attempted_providers is exactly the
\* prefix p_1..p_j of the candidate list, the candidate before p_j failed with a provider
\* error or was skipped on an open breaker, response.provider is p_j and is_fallback
\* holds exactly when j > 1.
C12_SuccessReportsAttempts ==
    \A r \in Reqs : Routed(r) =>
        LET resp == rt[r].response
            j    == Len(resp.attempted_providers)
        IN  /\ j \in 1..Len(rt[r].candidates)
            /\ resp.attempted_providers = SubSeq(rt[r].candidates, 1, j)
            /\ resp.provider = rt[r].candidates[j]
            /\ resp.is_fallback = (j > 1)
            /\ (j > 1) = (rt[r].last_error \in {"provider_error", "circuit_breaker_error"})
            /\ (j = 1) = (rt[r].last_error = "none")

\* A request served by the second candidate after the first one failed.
C12_Witness ==
    \E r \in Reqs : /\ Routed(r)
                    /\ rt[r].response.attempted_providers = <<"openai", "anthropic">>
                    /\ rt[r].response.provider = "anthropic"
                    /\ rt[r].response.is_fallback

\* The requests whose preferred provider is registered and supports the model.
PreferredUsable(r) ==
    /\ rt[r].preferred # "none"
    /\ get_provider_by_name(rt[r].preferred) # "none"
    /\ supports_model(get_provider_by_name(rt[r].preferred), rt[r].model)

\* The providers route() has turned to for the request.
Tried(r) == IF rt[r].path = "preferred" THEN rt[r].candidates ELSE rt[r].attempted

\* route() has ended with a failure of the providers.
ProvidersFailed(r) ==
    /\ req[r].pc = "raised"
    /\ rt[r].error \in {"provider_error", "circuit_breaker_error", "all_providers_failed"}

C15_OpenBreakerSkipsProvider ==
    [][\A r \in Reqs :
          (req[r].pc = "routing" /\ req'[r] # req[r] /\ breaker_rejects(breaker[Candidate(r)])) =>
             /\ req'[r].pc # "calling"
             /\ breaker' = breaker
             /\ rt'[r].attempted = Append(rt[r].attempted, Candidate(r))
             /\ req'[r].pc = "routing" \/ rt'[r].error = "all_providers_failed"]_vars

C17_RateLimitLeavesBreaker ==
    [][\A r \in Reqs :
          (req[r].pc = "calling" /\ rt'[r].error = "rate_limit_exceeded") =>
             /\ breaker'[Candidate(r)].state = breaker[Candidate(r)].state
             /\ breaker'[Candidate(r)].fail_counter = breaker[Candidate(r)].fail_counter]_vars

\* C18: when a candidate answers with a rate-limit error, route() ends at once with
\* RateLimitError, answered 429 with the provider's retry_after: no later candidate is
\* called for the request, no LLMEvent is appended and the usage counter is unchanged.
C18_ProviderRateLimitEndsRoute ==
    [][\A r \in Reqs : rt'[r].answer = "rate_limit_exceeded" =>
          /\ req'[r].pc \in {"raised", "rejected"}
          /\ rt'[r].error = "rate_limit_exceeded"
          /\ req'[r].pc = "rejected" => req'[r].http = 429 /\ req'[r].retry_after = 60
          /\ \A e \in events' : e.req # r
          /\ rt[r].answer = "rate_limit_exceeded" /\ req'[r] # req[r] =>
                 /\ breaker' = breaker
                 /\ usageCounter' = usageCounter
                 /\ events' = events]_vars

\* A rate-limit answer of the first candidate, with a further candidate left untried.
C18_Witness ==
    \E r \in Reqs : /\ req[r].pc = "raised"
                    /\ rt[r].answer = "rate_limit_exceeded"
                    /\ Len(rt[r].attempted) < Len(rt[r].candidates)

\* C19: a request all of whose candidates failed with a provider error or were skipped
\* on an open breaker ends with the all-providers-failed error, answered 503, which
\* carries the last underlying error and names all candidates in the order tried; no
\* LLMEvent is appended for it.
C19_AllProvidersFailed ==
    \A r \in Reqs :
        (/\ req[r].pc \in {"raised", "rejected"}
         /\ rt[r].error \in {"provider_error", "circuit_breaker_error", "all_providers_failed"}) =>
            /\ rt[r].error = "all_providers_failed"
            /\ req[r].pc = "raised" =>
                   /\ rt[r].attempted = rt[r].candidates
                   /\ rt[r].last_error \in {"provider_error", "circuit_breaker_error"}
            /\ req[r].pc = "rejected" => req[r].http = 503
            /\ \A e \in events : e.req # r

----------------------------------------------------------------------------
\* Claims about the order of the completion pipeline

\* C20: the pipeline runs the rate check, then the budget check, then the routing; a
\* request rejected by the rate check (429) or by the budget check (402) makes no
\* provider call, has no LLMEvent appended and leaves the usage counter unchanged.
C20_PipelineOrder ==
    [][\A r \in Reqs :
          /\ (req'[r].pc = "rate_ok" /\ req'[r] # req[r]) => req[r].pc = "incremented"
          /\ (req'[r].pc = "budget_ok" /\ req'[r] # req[r]) => req[r].pc = "rate_ok"
          /\ (req'[r].pc = "routed" \/ req'[r].http = 503) /\ req'[r] # req[r] =>
                 req[r].pc = "budget_ok"
          /\ req'[r].http \in {429, 402} =>
                 /\ req'[r].pc = "rejected"
                 /\ req'[r].tokens = 0
                 /\ \A e \in events' : e.req # r
          /\ req[r].http \in {429, 402} =>
                 /\ req'[r] = req[r]
                 /\ usageCounter' # usageCounter =>
                        \E q \in Reqs \ {r} : req[q].pc = "logged" /\ req'[q].pc = "counted"]_vars

\* A request rejected by the budget check next to a request that was served and counted.
C20_Witness ==
    \E r, q \in Reqs : /\ req[r].pc = "rejected" /\ req[r].http = 402
                       /\ req[q].pc = "done"
                       /\ usageCounter > 0

----------------------------------------------------------------------------
\* Claims about the budget accounting

\* C21: the budget check rejects exactly when used + estimate >= budget, reports
\* soft_limit_reached for an admitted request exactly when used >= budget * 80 / 100,
\* and never reports it with a rejection.
C21_BudgetCheckLimits ==
    \A r \in Reqs : req[r].pc \in {"budget_ok", "rejected"} =>
        LET budget == tenant.token_budget_monthly
            used   == tenant.token_used_current_month
        IN  /\ (req[r].pc = "rejected") = (used + req[r].est >= budget)
            /\ (req[r].pc = "rejected") = (req[r].http = 402)
            /\ req[r].pc = "budget_ok" =>
                   req[r].soft_limit_reached = (used * 100 >= budget * BUDGET_SOFT_LIMIT_PERCENT)
            /\ req[r].pc = "rejected" => ~req[r].soft_limit_reached

\* An admitted request with the soft limit reached, and a request rejected because it
\* would land exactly on the budget.
C21_Witness ==
    \E r, q \in Reqs :
        /\ req[r].pc = "budget_ok" /\ req[r].soft_limit_reached
        /\ req[q].pc = "rejected"
        /\ tenant.token_used_current_month + req[q].est = tenant.token_budget_monthly

\* The completion requests that are being processed.
InProgress(r) == req[r].pc \notin {"new", "done", "rejected"}

\* C22: whenever no completion request of the tenant is in progress, the usage counter
\* of the fast store plus the relational token_used_current_month equals the sum of
\* total_tokens over the tenant's LLMEvent rows.
C22_CounterMatchesEvents ==
    (\A r \in Reqs : ~InProgress(r)) =>
        usageCounter + tenant.token_used_current_month = TotalTokens(events)

\* C23: reconciliation moves the usage counter of the fast store into the relational
\* column (token_used_current_month += counter; counter := 0), so usage that has been
\* added to the counter is in the end taken out of it and into the tenant row.
C23_CounterIsReconciled ==
    \A n \in 1..(NumReqs * MaxTokens) :
        (usageCounter = n) ~> (usageCounter = 0 /\ tenant.token_used_current_month >= n)

----------------------------------------------------------------------------
\* Claims about the timestamps of a Run

\* C24: in every state of a Run, when started_at and completed_at are both set,
\* started_at <= completed_at and duration_seconds is the whole seconds between them.
C24_RunTimestampsOrdered ==
    (run.started_at # NoTime /\ run.completed_at # NoTime) =>
        /\ run.started_at <= run.completed_at
        /\ run.duration_seconds = (run.completed_at - run.started_at) \div UnitsPerSecond
----------------------------------------------------------------------------
\* A Run driven step by step: the workflow started by start_workflow sends the first
\* step to the queue, waits for its completion and then sends the next one
\* (step_functions.py, "State Machine Flow"); the worker executes the messages, LLM
\* steps through the gateway; the control plane may cancel the Run.

MaxRunBudget == 1   \* largest Run.token_budget

WorkflowInit ==
    /\ body = [m \in Msgs |-> [step_id |-> m, attempt |-> 1, step_type |-> StepTypeOf(m),
                               form |-> "complete"]]
    /\ \E k \in 1..NumSteps :
         queue = [m \in Msgs |-> IF m = 1 THEN "visible" ELSE IF m <= k THEN "pending" ELSE "none"]
    /\ dlq = {}
    /\ dlqConfigured \in BOOLEAN
    /\ step = [s \in Steps |-> InitStep]
    /\ \E b \in 1..MaxRunBudget : run = [InitRun EXCEPT !.token_budget = b]
    /\ task = [w \in Tasks |-> IdleTask]
    /\ faults = 0
    /\ lastAttempt = [s \in Steps |-> 0]
    /\ poll = NoPoll
    /\ cancel = NoCancel
    /\ now = 0
    /\ GatewayIdle

\* The workflow sends the message of the next step once the step before it is success
\* and the Run is not terminal.
EnqueueStep(m) ==
    /\ queue[m] = "pending"
    /\ step[m - 1].status = "success"
    /\ run.status \notin RunTerminal
    /\ queue' = [queue EXCEPT ![m] = "visible"]
    /\ UNCHANGED <<body, dlq, dlqConfigured, step, run, task, faults, lastAttempt, nonWorker>>

\* The dispatch by step type returns a result.  An LLM step went through
\* LLMClient.completion: the gateway answered 200, so it has committed one LLMEvent and
\* added total_tokens to the tenant's usage counter (create_completion).
DispatchDone(w) ==
    LET s == body[task[w].msg].step_id IN
    /\ task[w].pc = "running"
    /\ \E t \in TokenValues(body[task[w].msg].step_type) :
         /\ task' = [task EXCEPT ![w].pc = "ok", ![w].tokens = t,
                                 ![w].snapTokens = run.tokens_used,
                                 ![w].snapCost = run.estimated_cost_usd]
         /\ IF body[task[w].msg].step_type = "llm"
            THEN /\ events' = events \cup {[req |-> Cardinality(events) + 1, step_id |-> s,
                                           total_tokens |-> t]}
                 /\ usageCounter' = usageCounter + t
            ELSE UNCHANGED <<events, usageCounter>>
    /\ UNCHANGED <<body, queue, dlq, dlqConfigured, step, run, faults, lastAttempt, now,
                   cfgRateLimit, tenant, rate, budgetCache, req, window, routerVars, poll,
                   cancel>>

\* @retry(stop=stop_after_attempt(3), reraise=True) on LLMClient.completion
COMPLETION_ATTEMPTS == 3

\* The figures a 402 answer of the gateway carries: <<current_usage, budget>>.
BudgetFigures == { <<999, 1000>>, <<999500, 1000000>> }

\* LLMClient.completion: the gateway answers 402 and the client raises
\* BudgetExceededError(message).  The retry decorator retries on any exception until
\* the last attempt, whose exception leaves completion() and fails the dispatch.
completion_budget_exceeded(w) ==
    /\ task[w].pc = "running"
    /\ body[task[w].msg].step_type = "llm"
    /\ task[w].calls < COMPLETION_ATTEMPTS
    /\ \E f \in BudgetFigures :
         task' = [task EXCEPT ![w].calls = @ + 1,
                              ![w].pc = IF task[w].calls + 1 < COMPLETION_ATTEMPTS
                                        THEN "running" ELSE "err",
                              ![w].err = IF task[w].calls + 1 < COMPLETION_ATTEMPTS
                                         THEN NoError ELSE budget_exceeded_message(f[1], f[2])]
    /\ UNCHANGED <<body, queue, dlq, dlqConfigured, step, run, faults, lastAttempt, nonWorker>>

WorkflowNext ==
    \/ \E m \in Msgs : EnqueueStep(m)
    \/ \E w \in Tasks : completion_budget_exceeded(w)
    \/ \E w \in Tasks, m \in Msgs : Receive(w, m)
    \/ \E m \in Msgs : Redeliver(m)
    \/ \E w \in Tasks : ExecStart(w)
    \/ \E w \in Tasks : ExecRaises(w)
    \/ \E w \in Tasks : DispatchDone(w)
    \/ \E w \in Tasks : DispatchFails(w)
    \/ \E w \in Tasks : CommitSuccess(w)
    \/ \E w \in Tasks : CommitFailure(w)
    \/ \E w \in Tasks : LeaveInQueue(w)
    \/ \E w \in Tasks : move_to_dlq_unconfigured(w)
    \/ \E w \in Tasks : move_to_dlq_send(w)
    \/ \E w \in Tasks : move_to_dlq_send_fails(w)
    \/ \E w \in Tasks : delete_message(w)
    \/ \E w \in Tasks : delete_message_fails(w)
    \/ \E w \in Tasks : Crash(w)
    \/ CancelRun

WorkflowSpec == WorkflowInit /\ [][WorkflowNext]_vars

\* The scheduling of FairSpec, and a workflow that keeps running.
WorkflowTaskStep(w) ==
    \/ ExecStart(w) \/ ExecRaises(w) \/ DispatchDone(w) \/ DispatchFails(w)
    \/ completion_budget_exceeded(w)
    \/ CommitSuccess(w) \/ CommitFailure(w) \/ LeaveInQueue(w)
    \/ move_to_dlq_unconfigured(w) \/ move_to_dlq_send(w) \/ delete_message(w)

WorkflowFairSpec ==
    /\ WorkflowSpec
    /\ \A w \in Tasks : WF_vars(WorkflowTaskStep(w))
    /\ \A m \in Msgs : WF_vars(Redeliver(m))
    /\ \A m \in Msgs : WF_vars(EnqueueStep(m))
    /\ \A m \in Msgs : SF_vars(\E w \in Tasks : Receive(w, m))

----------------------------------------------------------------------------
\* Claims about a Run driven step by step

\* C25: a step adds its usage to Run.tokens_used only while tokens_used is within
\* token_budget (so tokens_used never exceeds token_budget plus the usage of that step),
\* and when the addition takes tokens_used past token_budget the Run becomes
\* budget_exceeded.
C25_RunBudgetBounded ==
    [][ /\ run'.tokens_used > run.tokens_used => run.tokens_used <= run.token_budget
        /\ run'.tokens_used > run'.token_budget => run'.status = "budget_exceeded" ]_vars

\* C26: a step message dequeued after its Run reached a terminal status is not
\* executed: the task that received it starts no execution (no gateway or tool call),
\* changes no Step row and leaves the Run's aggregates alone; and no successor is sent
\* to the queue once the Run is terminal.
C26_TerminalRunStopsSteps ==
    [][ /\ \A w \in Tasks :
             (task[w].pc # "idle" /\ task[w].runSeen \in RunTerminal /\ task'[w] # task[w]) =>
                 /\ task'[w].pc \notin {"running", "ok", "err"}
                 /\ step' = step
                 /\ run'.tokens_used = run.tokens_used
                 /\ run'.estimated_cost_usd = run.estimated_cost_usd
        /\ \A m \in Msgs :
             (queue[m] = "pending" /\ queue'[m] = "visible") => run.status \notin RunTerminal
      ]_vars

\* Step s is queued or executing: it is not success yet and its message waits in the
\* queue (visible, or in flight with no task processing it), or a task is inside
\* execute() for it and has not yet committed the outcome.
Active(s) ==
    \/ /\ step[s].status # "success"
       /\ \/ queue[s] = "visible"
          \/ queue[s] = "inflight" /\ \A w \in Tasks : ~Holds(w, s)
    \/ \E w \in Tasks : Holds(w, s) /\ task[w].pc \in {"running", "ok", "err"}

\* C27: within a non-parallel Run the message of step N+1 is sent only after step N
\* is success, no two steps of the Run are queued or executing at once, and a step
\* reaches success only while no later step is success.
C27_StepsInOrder ==
    [][ /\ \A m \in Msgs :
             (queue[m] = "pending" /\ queue'[m] = "visible") => step[m - 1].status = "success"
        /\ \A s1, s2 \in Steps : s1 < s2 => ~(Active(s1)' /\ Active(s2)')
        /\ \A s1, s2 \in Steps :
             (s1 < s2 /\ step'[s1] # step[s1] /\ step'[s1].status = "success") =>
                 step[s2].status # "success"
      ]_vars

\* The Run has the single step 1.
SingleStepRun == \A m \in Msgs : m > 1 => queue[m] = "none"

\* The LLMEvent rows of step s.
EventsOf(s) == {e \in events : e.step_id = s}

\* C28: a Run with a single llm step whose provider call succeeded with total_tokens = n
\* reaches, when no fault occurs and nobody cancels the Run, a state with the Step
\* success, Run.tokens_used = n, exactly one LLMEvent of the step, the usage counter
\* grown by n, the message deleted from the queue and the Run completed.
C28_SingleLlmStepCompletes ==
    \A n \in 0..MaxTokens :
        (/\ SingleStepRun
         /\ body[1].step_type = "llm"
         /\ \E w \in Tasks : task[w].pc = "ok" /\ task[w].msg = 1 /\ task[w].tokens = n)
        ~> \/ /\ step[1].status = "success"
              /\ run.tokens_used = n
              /\ Cardinality(EventsOf(1)) = 1
              /\ usageCounter = n
              /\ queue[1] = "deleted"
              /\ run.status = "completed"
           \/ faults > 0
           \/ run.status = "cancelled"

\* C29: whenever a Step is failed, its Run eventually leaves pending and running: it
\* is marked failed with an error_message (unless it had ended otherwise before).
C29_FailedStepFailsRun ==
    \A s \in Steps :
        (step[s].status = "failed")
        ~> /\ run.status \notin {"pending", "running"}
           /\ run.status = "failed" => run.error_message # "none"

\* C30: when a task acknowledges (deletes) a message after a successful execution, the
\* committed Step row is success and carries the output, tokens and cost of that
\* execution and no error message, whatever an earlier attempt wrote, and the message
\* is in neither the main queue nor the DLQ.  Stated for behaviours without
\* environment faults, where no other task processes the same message.
C30_StepRowReflectsExecution ==
    [][\A w \in Tasks :
         (faults = 0 /\ task[w].pc = "deleting" /\ task[w].err = NoError /\ delete_message(w)) =>
             /\ step'[StepOf(w)].status = "success"
             /\ step'[StepOf(w)].output_data \in Outputs
             /\ step'[StepOf(w)].tokens_used = task[w].tokens
             /\ step'[StepOf(w)].cost_usd = CostOf(task[w].tokens)
             /\ step'[StepOf(w)].error_message = NoError
             /\ queue'[task[w].msg] = "deleted"
             /\ ~InDlq(task[w].msg)']_vars
----------------------------------------------------------------------------
\* Intake of messages of any form: _process_message with bodies that may lack
\* fields or may not be JSON at all.

Forms == {"complete", "no_attempt", "missing_key", "not_json"}

\* The reason _process_message passes to _move_to_dlq for a body without a required field.
MissingFieldsReason == <<"Missing required fields">>

IntakeInit ==
    /\ body \in [Msgs -> [step_id : Steps, attempt : {1}, step_type : StepTypes, form : Forms]]
    /\ \A m \in Msgs : body[m].step_id = m /\ body[m].step_type = StepTypeOf(m)
    /\ queue = [m \in Msgs |-> "visible"]
    /\ dlq = {}
    /\ dlqConfigured \in BOOLEAN
    /\ step = [s \in Steps |-> InitStep]
    /\ run = InitRun
    /\ task = [w \in Tasks |-> IdleTask]
    /\ faults = 0
    /\ lastAttempt = [s \in Steps |-> 0]
    /\ poll = NoPoll
    /\ cancel = NoCancel
    /\ now = 0
    /\ GatewayIdle

\* _process_message: a required field is missing; the message goes to _move_to_dlq
\* with the reason "Missing required fields" and _process_message returns.
missing_fields(w) ==
    /\ task[w].pc = "received"
    /\ body[task[w].msg].form = "missing_key"
    /\ task' = [task EXCEPT ![w].pc = "failed", ![w].err = MissingFieldsReason]
    /\ UNCHANGED <<body, queue, dlq, dlqConfigured, step, run, faults, lastAttempt, nonWorker>>

\* json.loads raises JSONDecodeError and no DLQ is configured: _move_to_dlq only
\* deletes the message.
invalid_json_unconfigured(w) ==
    /\ task[w].pc = "received"
    /\ body[task[w].msg].form = "not_json"
    /\ ~dlqConfigured
    /\ task' = [task EXCEPT ![w].pc = "deleting"]
    /\ UNCHANGED <<body, queue, dlq, dlqConfigured, step, run, faults, lastAttempt, nonWorker>>

\* json.loads raises JSONDecodeError and a DLQ is configured: _move_to_dlq parses the
\* body again inside its try block, the second JSONDecodeError is caught and logged
\* there ("dlq_move_error"); nothing is sent and nothing is deleted.
invalid_json_dlq_raises(w) ==
    /\ task[w].pc = "received"
    /\ body[task[w].msg].form = "not_json"
    /\ dlqConfigured
    /\ task' = [task EXCEPT ![w] = IdleTask]
    /\ UNCHANGED <<body, queue, dlq, dlqConfigured, step, run, faults, lastAttempt, nonWorker>>

IntakeNext ==
    \/ \E w \in Tasks, m \in Msgs : Receive(w, m)
    \/ \E m \in Msgs : Redeliver(m)
    \/ \E w \in Tasks : missing_fields(w)
    \/ \E w \in Tasks : invalid_json_unconfigured(w)
    \/ \E w \in Tasks : invalid_json_dlq_raises(w)
    \/ \E w \in Tasks : ExecStart(w)
    \/ \E w \in Tasks : ExecRaises(w)
    \/ \E w \in Tasks : DispatchOk(w)
    \/ \E w \in Tasks : DispatchFails(w)
    \/ \E w \in Tasks : CommitSuccess(w)
    \/ \E w \in Tasks : CommitFailure(w)
    \/ \E w \in Tasks : LeaveInQueue(w)
    \/ \E w \in Tasks : move_to_dlq_unconfigured(w)
    \/ \E w \in Tasks : move_to_dlq_send(w)
    \/ \E w \in Tasks : move_to_dlq_send_fails(w)
    \/ \E w \in Tasks : delete_message(w)
    \/ \E w \in Tasks : delete_message_fails(w)
    \/ \E w \in Tasks : Crash(w)

IntakeSpec == IntakeInit /\ [][IntakeNext]_vars

----------------------------------------------------------------------------
\* Claims about the intake of messages

\* The task w ends its processing of a message without an environment fault.
Returns(w) == task[w].pc # "idle" /\ task'[w].pc = "idle" /\ faults' = faults

\* C31: a message that lacks run_id, step_id, step_name, step_type or attempt is never
\* executed, and when its processing ends it is gone from the main queue and the DLQ
\* holds its copy with dlq_reason "missing_required_fields" and original_message_id.
C31_MissingKeyGoesToDlq ==
    [][\A w \in Tasks :
         (task[w].pc # "idle" /\ body[task[w].msg].form \in {"no_attempt", "missing_key"}) =>
             /\ task'[w].pc \notin {"running", "ok", "err"}
             /\ step' = step /\ run' = run
             /\ Returns(w) =>
                   /\ queue'[task[w].msg] = "deleted"
                   /\ \E d \in dlq' : /\ d.original_message_id = task[w].msg
                                      /\ d.dlq_reason = <<"missing_required_fields">>]_vars

\* C32: a message whose body is not JSON is non-retryable: when its first processing
\* ends it is in the DLQ and gone from the main queue.
C32_InvalidJsonGoesToDlq ==
    [][\A w \in Tasks :
         (task[w].pc # "idle" /\ body[task[w].msg].form = "not_json" /\ Returns(w)) =>
             /\ queue'[task[w].msg] = "deleted"
             /\ InDlq(task[w].msg)']_vars

----------------------------------------------------------------------------
\* Claims about requests the router cannot serve or has to fail over

\* C33: a request whose model no registered provider supports ends with
\* model_not_supported and HTTP 400; its steps call no provider, change no breaker,
\* append no LLMEvent and leave the usage counter alone.
C33_ModelNotSupportedIs400 ==
    [][\A r \in Reqs :
         (rt'[r].error = "model_not_supported" /\ req'[r] # req[r]) =>
             /\ rt'[r].answer = "none"
             /\ breaker' = breaker
             /\ events' = events
             /\ usageCounter' = usageCounter
             /\ req'[r].pc = "rejected" => req'[r].http = 400]_vars

\* C34: openai and anthropic registered with their own model tables, model gpt-4, no
\* preferred provider: when the openai call ends in ProviderError and the openai
\* breaker stays closed, its failure counter has risen by exactly 1 and the request
\* goes on to anthropic; the response that follows is anthropic's, marked as fallback,
\* with attempted_providers = [openai, anthropic].
C34_FailoverToAnthropic ==
    [][\A r \in Reqs :
         (/\ providers.registered = <<"openai", "anthropic">>
          /\ providers.supported_models = ShippedModels
          /\ rt[r].model = "gpt-4" /\ rt[r].preferred = "none") =>
             /\ (/\ CallProviderError(r)
                 /\ Candidate(r) = "openai"
                 /\ breaker'["openai"].state = "closed") =>
                    /\ breaker'["openai"].fail_counter = breaker["openai"].fail_counter + 1
                    /\ req'[r].pc = "routing"
                    /\ rt'[r].candidates[Len(rt'[r].attempted) + 1] = "anthropic"
             /\ (CallOk(r) /\ rt[r].attempted = <<"openai">>) =>
                    rt'[r].response = [provider |-> "anthropic", is_fallback |-> TRUE,
                                       attempted_providers |-> <<"openai", "anthropic">>]]_vars

----------------------------------------------------------------------------
\* Claims about a step the gateway refuses for the budget

BudgetRefused(w) == task[w].err # NoError /\ task[w].err[1] = "budget exceeded"

\* C35: a 402 budget_exceeded answer is non-retryable at every level: the worker sends
\* no further gateway request for the execution, the Step becomes failed (never
\* retrying) whatever figures the message carries, and with a DLQ configured the
\* message ends in the DLQ.
C35_BudgetExceededNotRetried ==
    [][\A w \in Tasks :
         /\ completion_budget_exceeded(w) => task'[w].pc = "err"
         /\ (BudgetRefused(w) /\ CommitFailure(w)) => step'[StepOf(w)].status = "failed"
         /\ (BudgetRefused(w) /\ task[w].pc = "failed" /\ dlqConfigured /\ Returns(w)) =>
                InDlq(task[w].msg)']_vars

----------------------------------------------------------------------------
\* The polling loop of one worker process: SQSHandler.start

MaxBacklog == 12    \* most messages waiting in the queue

WORKER_CONCURRENCY == 5
SQS_MAX_MESSAGES   == 10

PollInit == run = NewRun /\ now = 0 /\ WorkerIdle /\ GatewayIdle

\* A step message is sent to the queue.
MessageArrives ==
    /\ poll.backlog < MaxBacklog
    /\ poll' = [poll EXCEPT !.backlog = @ + 1]
    /\ UNCHANGED <<body, queue, dlq, dlqConfigured, step, run, task, faults, lastAttempt,
                   now, cancel, gatewayVars>>

\* start(): receive_message returns up to SQS_MAX_MESSAGES messages and gather() runs
\* one _process_message coroutine for each of them; the loop polls again only after
\* gather() has returned.
PollBatch ==
    /\ poll.inflight = 0
    /\ \E k \in 1..Min(poll.backlog, SQS_MAX_MESSAGES) :
         poll' = [backlog |-> poll.backlog - k, inflight |-> k]
    /\ UNCHANGED <<body, queue, dlq, dlqConfigured, step, run, task, faults, lastAttempt,
                   now, cancel, gatewayVars>>

\* One _process_message coroutine of the batch returns.
ProcessDone ==
    /\ poll.inflight > 0
    /\ poll' = [poll EXCEPT !.inflight = @ - 1]
    /\ UNCHANGED <<body, queue, dlq, dlqConfigured, step, run, task, faults, lastAttempt,
                   now, cancel, gatewayVars>>

PollNext == MessageArrives \/ PollBatch \/ ProcessDone

PollSpec == PollInit /\ [][PollNext]_vars

\* C36: in one worker process the step executions in flight never exceed the
\* configured concurrency, whatever the size of the batch a poll returns.
C36_ConcurrencyBounded == poll.inflight <= WORKER_CONCURRENCY

----------------------------------------------------------------------------
\* The completion pipeline for a tenant with a rate limit of its own
\* (Tenant.rate_limit_per_minute)

TenantRateInit ==
    /\ cfgRateLimit \in 1..MaxRateLimit
    /\ tenant \in [token_budget_monthly : {MaxBudget}, token_used_current_month : {0},
                   rate_limit_per_minute : 1..MaxRateLimit]
    /\ rate = NoRateKey
    /\ budgetCache = NoCache
    /\ usageCounter = 0
    /\ events = {}
    /\ req = [r \in Reqs |-> NewReq]
    /\ window = 0
    /\ RouterIdle
    /\ now = 0 /\ run = NewRun /\ WorkerIdle

TenantRateSpec == TenantRateInit /\ [][GatewayNext]_vars

\* C37: the rate check compares the post-increment count with the tenant's own
\* rate_limit_per_minute: a request is refused with 429 exactly when its count
\* exceeds that limit.
C37_TenantOwnRateLimit ==
    \A r \in Reqs :
        req[r].pc \notin {"new", "incremented"} =>
            (req[r].http = 429) = (req[r].count > tenant.rate_limit_per_minute)

----------------------------------------------------------------------------
\* Claims about the durability of step messages and of the step outcome

\* C38: no step message is lost: every message is still in the main queue (visible
\* or in flight), or has a copy in the DLQ, or its Step is success; so the worker
\* has deleted a message only after the success was committed or after the copy
\* was written to the DLQ.
C38_NoMessageLost ==
    \A m \in Msgs :
        \/ queue[m] \in {"visible", "inflight"}
        \/ InDlq(m)
        \/ step[body[m].step_id].status = "success"

\* C39: the success of a step and the addition of its usage to the Run are committed
\* together: the commit that makes the Step success leaves the Run's aggregates
\* larger by exactly the usage of that execution, the aggregates change in no other
\* step, and a crash or cancellation of the worker commits nothing of either.
C39_SuccessAndUsageTogether ==
    [][/\ \A w \in Tasks :
            CommitSuccess(w) =>
                /\ step'[StepOf(w)].status = "success"
                /\ run'.tokens_used = run.tokens_used + task[w].tokens
                /\ run'.estimated_cost_usd = run.estimated_cost_usd + CostOf(task[w].tokens)
       /\ (run'.tokens_used # run.tokens_used \/ run'.estimated_cost_usd # run.estimated_cost_usd)
              => \E w \in Tasks : CommitSuccess(w)
       /\ \A w \in Tasks : Crash(w) => step' = step /\ run' = run]_vars

----------------------------------------------------------------------------
\* Control plane: cancel_run next to concurrent requests (routers/runs.py)

cancelRest == <<body, queue, dlq, dlqConfigured, step, task, faults, lastAttempt, poll,
                gatewayVars>>

\* The columns a flush of cancel_run writes: the attributes of the loaded row that
\* the handler has changed; the other columns keep their committed values.
flush_cancel(committed, loaded, t) ==
    LET new == cancel_run(loaded, t) IN
    [committed EXCEPT
        !.status           = IF new.status # loaded.status THEN new.status ELSE @,
        !.completed_at     = IF new.completed_at # loaded.completed_at
                             THEN new.completed_at ELSE @,
        !.duration_seconds = IF new.duration_seconds # loaded.duration_seconds
                             THEN new.duration_seconds ELSE @]

\* cancel_run: select(Run) loads the row into the session of the request.
CancelLoad ==
    /\ cancel.pc = "idle"
    /\ cancel' = [pc |-> "loaded", row |-> run, http |-> 0]
    /\ UNCHANGED <<run, now, cancelRest>>

\* cancel_run: the loaded status is not pending or running, HTTP 400.
CancelRefused ==
    /\ cancel.pc = "loaded"
    /\ ~cancellable(cancel.row)
    /\ cancel' = [NoCancel EXCEPT !.http = 400]
    /\ UNCHANGED <<run, now, cancelRest>>

\* cancel_run: the loaded status is pending or running; the row is set to cancelled,
\* flushed and committed, HTTP 204.
CancelFlush ==
    /\ cancel.pc = "loaded"
    /\ cancellable(cancel.row)
    /\ run' = flush_cancel(run, cancel.row, now)
    /\ cancel' = [NoCancel EXCEPT !.http = 204]
    /\ UNCHANGED <<now, cancelRest>>

\* The requests are served concurrently: between the select and the flush of
\* cancel_run other requests (UpdateRunStatus) commit.
CancelRaceNext ==
    \/ CancelLoad
    \/ CancelRefused
    \/ CancelFlush
    \/ UpdateRunStatus
    \/ ClockTick

CancelRaceSpec == ControlInit /\ [][CancelRaceNext]_vars

\* The cancel request answers in this step.
CancelAnswers == cancel.pc = "loaded" /\ cancel'.pc = "idle"

\* C40: cancel_run changes a Run only when its status is pending or running: a
\* request that answers while the Run is in any other status (also one that a
\* concurrent update_run_status has just committed) answers with an error and
\* leaves status, completed_at and duration_seconds as they are.
C40_CancelOnlyPendingOrRunning ==
    [][(CancelAnswers /\ ~cancellable(run)) =>
          /\ cancel'.http = 400
          /\ run'.status = run.status
          /\ run'.completed_at = run.completed_at
          /\ run'.duration_seconds = run.duration_seconds]_vars
====
